---------------------------- MODULE Spec2Model ----------------------------
(***************************************************************************)
(* spec-pattern-ts v3: the unified specification algebra of                *)
(* src/src/specification-v3.ts.                                            *)
(*                                                                         *)
(* The heap of specification objects is the sequence `nodes`; an object's  *)
(* reference is its index.  A client session is a sequence of calls of the *)
(* exported functions and of the methods of BaseSpecification; `last`      *)
(* records the most recent call, and for an evaluation its outcome and the *)
(* leaf predicates it invoked, in order.                                   *)
(***************************************************************************)
EXTENDS Naturals, Sequences, FiniteSets, TLC

VARIABLES nodes, last

vars == <<nodes, last>>

(***************************************************************************)
(* Bounds of the model.                                                    *)
(***************************************************************************)
\* Objects a session allocates at most.
MaxNodes == 3
\* Arguments of one allOf / anyOf call at most.
MaxArgs == 3
\* Objects of one session over the whole API at most.
MaxObjects == 2
\* Elements of a filtered list at most.
MaxList == 4

(***************************************************************************)
(* Inputs: contexts and predicates.                                        *)
(***************************************************************************)
\* Property names of a context, and the values a property may hold.
Keys == {"a", "b"}
Values == {0, 1}
\* The value `undefined` stored in a property, a value that is neither of
\* Values.
Undefined == 2
\* A context is an object with some of the properties: `key in candidate` is
\* key \in DOMAIN candidate, and candidate[key] is the property's value.
Contexts == UNION {[present -> Values] : present \in SUBSET Keys}
EmptyContext == [k \in {} |-> 0]
\* The contexts whose properties may also hold undefined.
NullableContexts ==
  UNION {[present -> Values \cup {Undefined}] : present \in SUBSET Keys}

\* A call that returned a boolean, and a call that ended with an exception.
Returned(b) == [threw |-> FALSE, value |-> b]
Thrown == [threw |-> TRUE, value |-> FALSE]

\* !outcome: the negation of a returned boolean; an exception stays one.
Negated(outcome) == IF outcome.threw THEN outcome ELSE Returned(~outcome.value)

\* The products of example/product.spec.ts: new Product(price, name), read
\* through the getters `name` and `price`.  The four of the test in their
\* order, and one more at the price the test compares with.
Product(price, name) == [name |-> name, price |-> price]
ExampleProducts ==
  <<Product(100, "widgetA"), Product(1100, "widgetB"),
    Product(2000, "widgetA"), Product(300, "widgetB")>>
Products ==
  {ExampleProducts[i] : i \in 1..Len(ExampleProducts)}
    \cup {Product(1000, "widgetA")}
\* The names s for which s.includes('A').
NamesWithA == {"widgetA"}

\* A value that is no function, passed where a predicate is expected (the
\* compiler rejects it; at run time nothing does until it is called, and
\* calling it throws a TypeError).
NotCallable == "notAFunction"

\* Caller-supplied predicates over one value, (value: T) => boolean.
\*   isOne:       v => v === 1
\*   alwaysTrue:  v => true
\*   alwaysFalse: v => false
\*   mustBeOne:   v => { if (v !== 1) throw ...; return true }
\*   isUndefined: v => v === undefined
ValuePredicates == {"isOne", "alwaysTrue", "alwaysFalse", "mustBeOne"}
ApplyValuePredicate(p, v) ==
  CASE p = "isOne" -> Returned(v = 1)
    [] p = "alwaysTrue" -> Returned(TRUE)
    [] p = "alwaysFalse" -> Returned(FALSE)
    [] p = "mustBeOne" -> IF v = 1 THEN Returned(TRUE) ELSE Thrown
    [] p = "isUndefined" -> Returned(v = Undefined)
    [] p = "includesA" -> Returned(v \in NamesWithA)
    [] p = "atLeast1000" -> Returned(v >= 1000)
    [] p = NotCallable -> Thrown

\* Caller-supplied predicates over a whole context, (context) => boolean.
\*   ctxTrue:   ctx => true
\*   ctxFalse:  ctx => false
\*   bothOnes:  ctx => ctx.a.x === 1 && ctx.b.x === 1, which reads through each
\*              property and so throws a TypeError when `a` is missing, or
\*              when a.x is 1 and `b` is missing (the shape of the predicates
\*              of the test 'CompositeSpec으로 복잡한 비즈니스 로직').
\*   eitherOne: ctx => ctx.a === 1 || ctx.b === 1, which reads the properties
\*              themselves only (a missing one reads as undefined) and so
\*              returns on every context.
ContextPredicates == {"ctxTrue", "ctxFalse", "bothOnes", "eitherOne"}
ApplyContextPredicate(p, c) ==
  CASE p = "ctxTrue" -> Returned(TRUE)
    [] p = "ctxFalse" -> Returned(FALSE)
    [] p = "bothOnes" ->
         IF "a" \notin DOMAIN c THEN Thrown
         ELSE IF c["a"] # 1 THEN Returned(FALSE)
         ELSE IF "b" \notin DOMAIN c THEN Thrown
         ELSE Returned(c["b"] = 1)
    [] p = "nameContainsA" -> Returned(c.name \in NamesWithA)
    [] p = "highPrice" -> Returned(c.price >= 1000)
    [] p = "eitherOne" ->
         Returned(("a" \in DOMAIN c /\ c["a"] = 1)
                  \/ ("b" \in DOMAIN c /\ c["b"] = 1))
    [] p = NotCallable -> Thrown

\* The leaves a session creates: (key, predicate) pairs and context predicates.
SessionKeyed == {<<"a", "isOne">>, <<"b", "mustBeOne">>}
SessionContextPredicates == {"bothOnes"}

\* The leaves of a session whose predicates are all total.
TotalKeyed == {<<"a", "isOne">>, <<"b", "isOne">>}
TotalContextPredicates == {"eitherOne"}

\* The predicate arguments of a session that exercises every exported
\* function: predicates and a value that is not callable.
ApiValuePredicates == {"isOne", "mustBeOne", NotCallable}
ApiContextPredicates == {"bothOnes", NotCallable}

(***************************************************************************)
(* The classes.  Every object has all fields; a field a class does not     *)
(* declare holds NoKey / NoPredicate / Null.                               *)
(***************************************************************************)
Null == 0
NoKey == ""
NoPredicate == ""

\* class SingleKeySpecification { private key; private predicate }
SingleKeySpecification(key, predicate) ==
  [kind |-> "SingleKey", key |-> key, predicate |-> predicate,
   left |-> Null, right |-> Null, spec |-> Null]

\* class PredicateSpecification { private predicate }
PredicateSpecification(predicate) ==
  [kind |-> "Predicate", key |-> NoKey, predicate |-> predicate,
   left |-> Null, right |-> Null, spec |-> Null]

\* class AndSpecification { private left; private right }
AndSpecification(left, right) ==
  [kind |-> "And", key |-> NoKey, predicate |-> NoPredicate,
   left |-> left, right |-> right, spec |-> Null]

\* class OrSpecification { private left; private right }
OrSpecification(left, right) ==
  [kind |-> "Or", key |-> NoKey, predicate |-> NoPredicate,
   left |-> left, right |-> right, spec |-> Null]

\* class NotSpecification { private spec }
NotSpecification(spec) ==
  [kind |-> "Not", key |-> NoKey, predicate |-> NoPredicate,
   left |-> Null, right |-> Null, spec |-> spec]

\* How a call that builds a specification ends: with the heap as the call
\* left it and the reference returned, or with an exception.
Return(h, ref) == [heap |-> h, ref |-> ref, threw |-> FALSE]
Raise(h) == [heap |-> h, ref |-> Null, threw |-> TRUE]

\* class SpecBuilder { private predicate }
SpecBuilder(predicate) ==
  [kind |-> "Builder", key |-> NoKey, predicate |-> predicate,
   left |-> Null, right |-> Null, spec |-> Null]

\* `new C(...)`: the object is appended to the heap h; the result is the new
\* heap and the reference returned.
New(h, object) == Return(Append(h, object), Len(h) + 1)

(***************************************************************************)
(* isSatisfiedBy.  An evaluation yields its outcome and the sequence of    *)
(* the leaf objects whose predicate it invoked.                            *)
(***************************************************************************)
Result(outcome, calls) == [outcome |-> outcome, calls |-> calls]

RECURSIVE isSatisfiedBy(_, _, _)

\* Mutant: `return this.predicate(candidate[this.key])`, without the
\* `this.key in candidate` test: on a missing key the predicate is invoked
\* with undefined (isOne and alwaysFalse return false, mustBeOne throws).
SingleKey_isSatisfiedBy_NoKeyTest(h, this, candidate) ==
  IF h[this].key \notin DOMAIN candidate
  THEN Result(CASE h[this].predicate = "mustBeOne" -> Thrown
                [] h[this].predicate = "alwaysTrue" -> Returned(TRUE)
                [] OTHER -> Returned(FALSE),
              <<this>>)
  ELSE Result(ApplyValuePredicate(h[this].predicate, candidate[h[this].key]),
              <<this>>)

\* Mutant: the predicate is consulted twice,
\* `this.predicate(candidate[this.key]) && this.predicate(candidate[this.key])`.
SingleKey_isSatisfiedBy_Twice(h, this, candidate) ==
  IF h[this].key \notin DOMAIN candidate
  THEN Result(Returned(FALSE), <<>>)
  ELSE LET first == ApplyValuePredicate(h[this].predicate,
                                        candidate[h[this].key])
       IN IF first.threw \/ ~first.value
          THEN Result(first, <<this>>)
          ELSE Result(first, <<this, this>>)

\* Mutant: presence decided by the value,
\* `candidate[this.key] !== undefined && this.predicate(candidate[this.key])`.
SingleKey_isSatisfiedBy_ByValue(h, this, candidate) ==
  IF h[this].key \notin DOMAIN candidate
     \/ candidate[h[this].key] = Undefined
  THEN Result(Returned(FALSE), <<>>)
  ELSE Result(ApplyValuePredicate(h[this].predicate, candidate[h[this].key]),
              <<this>>)

\* SingleKeySpecification.isSatisfiedBy:
\*   return this.key in candidate && this.predicate(candidate[this.key])
SingleKey_isSatisfiedBy(h, this, candidate) ==
  IF h[this].key \notin DOMAIN candidate
  THEN Result(Returned(FALSE), <<>>)
  ELSE Result(ApplyValuePredicate(h[this].predicate, candidate[h[this].key]),
              <<this>>)

\* PredicateSpecification.isSatisfiedBy: return this.predicate(candidate)
Predicate_isSatisfiedBy(h, this, candidate) ==
  Result(ApplyContextPredicate(h[this].predicate, candidate), <<this>>)

\* Mutant: `return leftResult || rightResult`.
And_isSatisfiedBy_Disjunction(h, this, candidate) ==
  LET leftResult == isSatisfiedBy(h, h[this].left, candidate)
  IN IF leftResult.outcome.threw
     THEN leftResult
     ELSE LET rightResult == isSatisfiedBy(h, h[this].right, candidate)
              calls == leftResult.calls \o rightResult.calls
          IN IF rightResult.outcome.threw
             THEN Result(Thrown, calls)
             ELSE Result(Returned(leftResult.outcome.value
                                  \/ rightResult.outcome.value), calls)

\* Mutant: `return left.isSatisfiedBy(c) && right.isSatisfiedBy(c)`, the
\* right operand evaluated only if the left one returned true.
And_isSatisfiedBy_ShortCircuit(h, this, candidate) ==
  LET leftResult == isSatisfiedBy(h, h[this].left, candidate)
  IN IF leftResult.outcome.threw \/ ~leftResult.outcome.value
     THEN leftResult
     ELSE LET rightResult == isSatisfiedBy(h, h[this].right, candidate)
          IN Result(rightResult.outcome,
                    leftResult.calls \o rightResult.calls)

\* Mutant: the two statements in the other order, rightResult first.
And_isSatisfiedBy_RightFirst(h, this, candidate) ==
  LET rightResult == isSatisfiedBy(h, h[this].right, candidate)
  IN IF rightResult.outcome.threw
     THEN rightResult
     ELSE LET leftResult == isSatisfiedBy(h, h[this].left, candidate)
              calls == rightResult.calls \o leftResult.calls
          IN IF leftResult.outcome.threw
             THEN Result(Thrown, calls)
             ELSE Result(Returned(leftResult.outcome.value
                                  /\ rightResult.outcome.value), calls)

\* Mutant: the right operand overrides the left one,
\* `return this.right.isSatisfiedBy(candidate)`.
And_isSatisfiedBy_RightOnly(h, this, candidate) ==
  isSatisfiedBy(h, h[this].right, candidate)

\* AndSpecification.isSatisfiedBy:
\*   const leftResult = this.left.isSatisfiedBy(candidate)
\*   const rightResult = this.right.isSatisfiedBy(candidate)
\*   return leftResult && rightResult
And_isSatisfiedBy(h, this, candidate) ==
  LET leftResult == isSatisfiedBy(h, h[this].left, candidate)
  IN IF leftResult.outcome.threw
     THEN leftResult
     ELSE LET rightResult == isSatisfiedBy(h, h[this].right, candidate)
              calls == leftResult.calls \o rightResult.calls
          IN IF rightResult.outcome.threw
             THEN Result(Thrown, calls)
             ELSE Result(Returned(leftResult.outcome.value
                                  /\ rightResult.outcome.value), calls)

\* Mutant: only the left operand decides, `return this.left.isSatisfiedBy`
\* inside the try.
Or_isSatisfiedBy_LeftOnly(h, this, candidate) ==
  LET leftResult == isSatisfiedBy(h, h[this].left, candidate)
  IN IF ~leftResult.outcome.threw /\ leftResult.outcome.value
     THEN Result(Returned(TRUE), leftResult.calls)
     ELSE Result(Returned(FALSE), leftResult.calls)

\* Mutant: one try around both operands, so an exception of the left one
\* skips the right one:
\*   try { if (left.isSatisfiedBy(c)) return true
\*         if (right.isSatisfiedBy(c)) return true } catch {}
\*   return false
Or_isSatisfiedBy_OneTry(h, this, candidate) ==
  LET leftResult == isSatisfiedBy(h, h[this].left, candidate)
  IN IF leftResult.outcome.threw
     THEN Result(Returned(FALSE), leftResult.calls)
     ELSE IF leftResult.outcome.value
     THEN Result(Returned(TRUE), leftResult.calls)
     ELSE LET rightResult == isSatisfiedBy(h, h[this].right, candidate)
              calls == leftResult.calls \o rightResult.calls
          IN IF ~rightResult.outcome.threw /\ rightResult.outcome.value
             THEN Result(Returned(TRUE), calls)
             ELSE Result(Returned(FALSE), calls)

\* Mutant: the operands are evaluated outside any try, so their exceptions
\* reach the caller: `return left.isSatisfiedBy(c) || right.isSatisfiedBy(c)`.
Or_isSatisfiedBy_Propagating(h, this, candidate) ==
  LET leftResult == isSatisfiedBy(h, h[this].left, candidate)
  IN IF leftResult.outcome.threw \/ leftResult.outcome.value
     THEN leftResult
     ELSE LET rightResult == isSatisfiedBy(h, h[this].right, candidate)
          IN Result(rightResult.outcome, leftResult.calls \o rightResult.calls)

\* OrSpecification.isSatisfiedBy:
\*   try { if (this.left.isSatisfiedBy(candidate)) return true } catch {}
\*   try { if (this.right.isSatisfiedBy(candidate)) return true } catch {}
\*   return false
Or_isSatisfiedBy(h, this, candidate) ==
  LET leftResult == isSatisfiedBy(h, h[this].left, candidate)
  IN IF ~leftResult.outcome.threw /\ leftResult.outcome.value
     THEN Result(Returned(TRUE), leftResult.calls)
     ELSE LET rightResult == isSatisfiedBy(h, h[this].right, candidate)
              calls == leftResult.calls \o rightResult.calls
          IN IF ~rightResult.outcome.threw /\ rightResult.outcome.value
             THEN Result(Returned(TRUE), calls)
             ELSE Result(Returned(FALSE), calls)

\* Mutant: `return this.spec.isSatisfiedBy(candidate)`, the `!` forgotten.
Not_isSatisfiedBy_NoNegation(h, this, candidate) ==
  isSatisfiedBy(h, h[this].spec, candidate)

\* NotSpecification.isSatisfiedBy: return !this.spec.isSatisfiedBy(candidate)
Not_isSatisfiedBy(h, this, candidate) ==
  LET inner == isSatisfiedBy(h, h[this].spec, candidate)
  IN IF inner.outcome.threw
     THEN inner
     ELSE Result(Returned(~inner.outcome.value), inner.calls)

\* The virtual call spec.isSatisfiedBy(candidate).
isSatisfiedBy(h, this, candidate) ==
  CASE h[this].kind = "SingleKey" -> SingleKey_isSatisfiedBy(h, this, candidate)
    [] h[this].kind = "Predicate" -> Predicate_isSatisfiedBy(h, this, candidate)
    [] h[this].kind = "And" -> And_isSatisfiedBy(h, this, candidate)
    [] h[this].kind = "Or" -> Or_isSatisfiedBy(h, this, candidate)
    [] h[this].kind = "Not" -> Not_isSatisfiedBy(h, this, candidate)

\* The candidate object as an evaluation leaves it.  No isSatisfiedBy of the
\* five classes assigns to the candidate or to a property of it: the atomic
\* leaf reads `this.key in candidate` and `candidate[this.key]`, the
\* composite-predicate leaf hands the candidate to its predicate (assumed
\* pure), and And, Or and Not hand the same object on to their operands.
RECURSIVE CandidateAfter(_, _, _)
CandidateAfter(h, this, candidate) ==
  CASE h[this].kind \in {"SingleKey", "Predicate"} -> candidate
    [] h[this].kind \in {"And", "Or"} ->
         CandidateAfter(h, h[this].right,
                        CandidateAfter(h, h[this].left, candidate))
    [] h[this].kind = "Not" -> CandidateAfter(h, h[this].spec, candidate)

\* Mutant: is() tests that there is a candidate, `return Boolean(candidate)`.
is_TestsCandidate(h, this, candidate) == Result(Returned(TRUE), <<>>)

\* BaseSpecification.is: return this.isSatisfiedBy(candidate)
is(h, this, candidate) == isSatisfiedBy(h, this, candidate)

(***************************************************************************)
(* Composition: the methods of BaseSpecification and the exported          *)
(* functions.                                                              *)
(***************************************************************************)
\* Mutant: and() wraps a copy of its operand,
\* `return new AndSpecification(this, clone(other))`.
and_CopiesOperand(h, this, other) ==
  New(New(h, h[other]).heap, AndSpecification(this, Len(h) + 1))

\* Mutant: and() takes the key away from its operand,
\* `delete other.key; return new AndSpecification(this, other)`.
and_TakesKey(h, this, other) ==
  New([h EXCEPT ![other].key = NoKey], AndSpecification(this, other))

\* BaseSpecification.and: return new AndSpecification(this, other)
and(h, this, other) == New(h, AndSpecification(this, other))

\* Mutant: or() empties the receiver it wraps,
\* `const node = new OrSpecification(this, other); delete this.key`.
or_TakesKey(h, this, other) ==
  New([h EXCEPT ![this].key = NoKey], OrSpecification(this, other))

\* BaseSpecification.or: return new OrSpecification(this, other)
or(h, this, other) == New(h, OrSpecification(this, other))

\* Mutant: not() of a NotSpecification returns the wrapped specification, as
\* the v2 NotCompositeSpecification does, instead of wrapping once more.
not_Cancelling(h, this) ==
  IF h[this].kind = "Not"
  THEN Return(h, h[this].spec)
  ELSE New(h, NotSpecification(this))

\* BaseSpecification.not: return new NotSpecification(this)
not(h, this) == New(h, NotSpecification(this))

\* Mutant: Spec checks `typeof predicate === 'function'` and throws if not.
SpecFn_Validating(h, key, predicate) ==
  IF predicate = NotCallable
  THEN Raise(h)
  ELSE New(h, SingleKeySpecification(key, predicate))

\* export function Spec(key, predicate)
SpecFn(h, key, predicate) == New(h, SingleKeySpecification(key, predicate))

\* export function CompositeSpec(predicate)
CompositeSpec(h, predicate) == New(h, PredicateSpecification(predicate))

\* export function define(predicate): return new SpecBuilder(predicate)
define(h, predicate) == New(h, SpecBuilder(predicate))

\* Mutant: as() binds every specification to one and the same key,
\* `return Spec('a', this.predicate)`.
as_OneKey(h, this, key) == SpecFn(h, "a", h[this].predicate)

\* SpecBuilder.as(key): return Spec(key, this.predicate)
as(h, this, key) == SpecFn(h, key, h[this].predicate)

\* export function not(spec): return spec.not()
notFn(h, spec) == not(h, spec)

\* Array.prototype.reduce without an initial value, as allOf and anyOf call
\* it: the accumulator starts as specs[0] and the callback is applied to
\* specs[1], specs[2], ... in order.  `method` names the callback's method.
RECURSIVE ReduceFrom(_, _, _, _, _)
ReduceFrom(h, acc, specs, i, method) ==
  IF i > Len(specs)
  THEN Return(h, acc)
  ELSE LET step == IF method = "and" THEN and(h, acc, specs[i])
                                     ELSE or(h, acc, specs[i])
       IN ReduceFrom(step.heap, step.ref, specs, i + 1, method)

\* Mutant: reduce called with an initial value that is no specification
\* (`specs.reduce(callback, undefined)`-like): of an empty array it returns
\* that value instead of throwing.
Reduce_EmptyReturnsInitial(h, specs, method) ==
  IF Len(specs) = 0
  THEN Return(h, Null)
  ELSE ReduceFrom(h, specs[1], specs, 2, method)

\* specs.reduce(callback): of an empty array, with no initial value, reduce
\* throws a TypeError before the callback is called once.
Reduce(h, specs, method) ==
  IF Len(specs) = 0
  THEN Raise(h)
  ELSE ReduceFrom(h, specs[1], specs, 2, method)

\* Mutant: allOf folds with or, the callback of anyOf.
allOf_FoldsOr(h, specs) == Reduce(h, specs, "or")

\* export function allOf(...specs): specs.reduce((acc, spec) => acc.and(spec))
allOf(h, specs) == Reduce(h, specs, "and")

\* export function anyOf(...specs): specs.reduce((acc, spec) => acc.or(spec))
anyOf(h, specs) == Reduce(h, specs, "or")

(***************************************************************************)
(* The session.                                                            *)
(***************************************************************************)
Refs == 1..Len(nodes)

\* The argument lists of n specifications, each an object that exists.
ArgLists(n) == [1..n -> Refs]

\* The record of a call that built a specification.
Built(op, args, ref) ==
  [op |-> op, args |-> args, ref |-> ref, candidate |-> EmptyContext,
   after |-> EmptyContext, outcome |-> Returned(FALSE), calls |-> <<>>]

\* The record of an evaluation: the candidate passed, and the same object as
\* the call left it.
Evaluated(op, this, candidate, result) ==
  [op |-> op, args |-> <<this>>, ref |-> Null, candidate |-> candidate,
   after |-> CandidateAfter(nodes, this, candidate),
   outcome |-> result.outcome, calls |-> result.calls]

\* The record of a call that ended with an exception before it built anything.
Failed(op, args) ==
  [op |-> op, args |-> args, ref |-> Null, candidate |-> EmptyContext,
   after |-> EmptyContext, outcome |-> Thrown, calls |-> <<>>]

\* The record of a building call that ended as `r` says.
Ended(op, args, r) ==
  IF r.threw THEN Failed(op, args) ELSE Built(op, args, r.ref)

NoCall == Built("none", <<>>, Null)

Init ==
  /\ nodes = <<>>
  /\ last = NoCall

CallSpec ==
  \E kp \in SessionKeyed :
    /\ Len(nodes) < MaxNodes
    /\ LET r == SpecFn(nodes, kp[1], kp[2])
       IN /\ nodes' = r.heap
          /\ last' = Built("Spec", <<>>, r.ref)

CallCompositeSpec ==
  \E p \in SessionContextPredicates :
    /\ Len(nodes) < MaxNodes
    /\ LET r == CompositeSpec(nodes, p)
       IN /\ nodes' = r.heap
          /\ last' = Built("CompositeSpec", <<>>, r.ref)

CallAnd ==
  \E this \in Refs, other \in Refs :
    /\ Len(nodes) < MaxNodes
    /\ LET r == and(nodes, this, other)
       IN /\ nodes' = r.heap
          /\ last' = Built("and", <<this, other>>, r.ref)

CallOr ==
  \E this \in Refs, other \in Refs :
    /\ Len(nodes) < MaxNodes
    /\ LET r == or(nodes, this, other)
       IN /\ nodes' = r.heap
          /\ last' = Built("or", <<this, other>>, r.ref)

CallNot ==
  \E this \in Refs :
    /\ Len(nodes) < MaxNodes
    /\ LET r == not(nodes, this)
       IN /\ nodes' = r.heap
          /\ last' = Built("not", <<this>>, r.ref)

CallNotFn ==
  \E spec \in Refs :
    /\ Len(nodes) < MaxNodes
    /\ LET r == notFn(nodes, spec)
       IN /\ nodes' = r.heap
          /\ last' = Built("notFn", <<spec>>, r.ref)

CallAllOf ==
  \E n \in 0..MaxArgs :
    /\ Len(nodes) + n <= MaxNodes + 1
    /\ \E specs \in ArgLists(n) :
         LET r == allOf(nodes, specs)
         IN /\ nodes' = r.heap
            /\ last' = Ended("allOf", specs, r)

CallAnyOf ==
  \E n \in 0..MaxArgs :
    /\ Len(nodes) + n <= MaxNodes + 1
    /\ \E specs \in ArgLists(n) :
         LET r == anyOf(nodes, specs)
         IN /\ nodes' = r.heap
            /\ last' = Ended("anyOf", specs, r)

CallIsSatisfiedBy ==
  \E this \in Refs, candidate \in Contexts :
    /\ nodes' = nodes
    /\ last' = Evaluated("isSatisfiedBy", this, candidate,
                         isSatisfiedBy(nodes, this, candidate))

Next ==
  \/ CallSpec
  \/ CallCompositeSpec
  \/ CallAnd
  \/ CallOr
  \/ CallNot
  \/ CallNotFn
  \/ CallAllOf
  \/ CallAnyOf
  \/ CallIsSatisfiedBy

Spec == Init /\ [][Next]_vars

(***************************************************************************)
(* A second session, over every way of making a leaf: Spec, CompositeSpec  *)
(* and define(...).as(...), with predicate arguments that include a value  *)
(* that is not callable, and with both evaluation methods.  Builders live  *)
(* on the same heap as the specifications; only specifications are passed  *)
(* where a specification is expected.                                      *)
(***************************************************************************)
SpecRefs == {i \in Refs : nodes[i].kind # "Builder"}
BuilderRefs == {i \in Refs : nodes[i].kind = "Builder"}

ApiSpec ==
  \E key \in Keys, predicate \in ApiValuePredicates :
    /\ Len(nodes) < MaxObjects
    /\ LET r == SpecFn(nodes, key, predicate)
       IN /\ nodes' = r.heap
          /\ last' = Ended("Spec", <<>>, r)

ApiCompositeSpec ==
  \E predicate \in ApiContextPredicates :
    /\ Len(nodes) < MaxObjects
    /\ LET r == CompositeSpec(nodes, predicate)
       IN /\ nodes' = r.heap
          /\ last' = Ended("CompositeSpec", <<>>, r)

ApiDefine ==
  \E predicate \in ApiValuePredicates :
    /\ Len(nodes) < MaxObjects
    /\ LET r == define(nodes, predicate)
       IN /\ nodes' = r.heap
          /\ last' = Ended("define", <<>>, r)

ApiAs ==
  \E this \in BuilderRefs, key \in Keys :
    /\ Len(nodes) < MaxObjects
    /\ LET r == as(nodes, this, key)
       IN /\ nodes' = r.heap
          /\ last' = Ended("as", <<this>>, r)

ApiAnd ==
  \E this \in SpecRefs, other \in SpecRefs :
    /\ Len(nodes) < MaxObjects
    /\ LET r == and(nodes, this, other)
       IN /\ nodes' = r.heap
          /\ last' = Ended("and", <<this, other>>, r)

ApiOr ==
  \E this \in SpecRefs, other \in SpecRefs :
    /\ Len(nodes) < MaxObjects
    /\ LET r == or(nodes, this, other)
       IN /\ nodes' = r.heap
          /\ last' = Ended("or", <<this, other>>, r)

ApiNot ==
  \E this \in SpecRefs :
    /\ Len(nodes) < MaxObjects
    /\ LET r == not(nodes, this)
       IN /\ nodes' = r.heap
          /\ last' = Ended("not", <<this>>, r)

ApiAllOf ==
  \E n \in 0..MaxArgs :
    /\ Len(nodes) + n <= MaxObjects + 1
    /\ \E specs \in [1..n -> SpecRefs] :
         LET r == allOf(nodes, specs)
         IN /\ nodes' = r.heap
            /\ last' = Ended("allOf", specs, r)

ApiAnyOf ==
  \E n \in 0..MaxArgs :
    /\ Len(nodes) + n <= MaxObjects + 1
    /\ \E specs \in [1..n -> SpecRefs] :
         LET r == anyOf(nodes, specs)
         IN /\ nodes' = r.heap
            /\ last' = Ended("anyOf", specs, r)

ApiIsSatisfiedBy ==
  \E this \in SpecRefs, candidate \in Contexts :
    /\ nodes' = nodes
    /\ last' = Evaluated("isSatisfiedBy", this, candidate,
                         isSatisfiedBy(nodes, this, candidate))

ApiIs ==
  \E this \in SpecRefs, candidate \in Contexts :
    /\ nodes' = nodes
    /\ last' = Evaluated("is", this, candidate, is(nodes, this, candidate))

ApiNext ==
  \/ ApiSpec
  \/ ApiCompositeSpec
  \/ ApiDefine
  \/ ApiAs
  \/ ApiAnd
  \/ ApiOr
  \/ ApiNot
  \/ ApiAllOf
  \/ ApiAnyOf
  \/ ApiIsSatisfiedBy
  \/ ApiIs

SpecApi == Init /\ [][ApiNext]_vars

(***************************************************************************)
(* A third session, of specifications whose predicates return on every     *)
(* argument, nested with and, or and not.                                  *)
(***************************************************************************)
TotalSpec ==
  \E kp \in TotalKeyed :
    /\ Len(nodes) < MaxNodes
    /\ LET r == SpecFn(nodes, kp[1], kp[2])
       IN /\ nodes' = r.heap
          /\ last' = Ended("Spec", <<>>, r)

TotalCompositeSpec ==
  \E predicate \in TotalContextPredicates :
    /\ Len(nodes) < MaxNodes
    /\ LET r == CompositeSpec(nodes, predicate)
       IN /\ nodes' = r.heap
          /\ last' = Ended("CompositeSpec", <<>>, r)

TotalNext ==
  \/ TotalSpec
  \/ TotalCompositeSpec
  \/ CallAnd
  \/ CallOr
  \/ CallNot
  \/ CallIsSatisfiedBy

SpecTotal == Init /\ [][TotalNext]_vars

(***************************************************************************)
(* A fourth session, the test 'complex nested combination' for any four    *)
(* atomic specifications: A, B, C and D are built in this order, then      *)
(* B.and(C), then B.and(C).and(D), then A.or(B.and(C).and(D)), and then    *)
(* the specifications are evaluated.                                       *)
(***************************************************************************)
NestedKeyed == Keys \X {"isOne", "mustBeOne", "alwaysTrue"}
NestedA == 1
NestedB == 2
NestedC == 3
NestedD == 4
NestedBC == 5
NestedBCD == 6
NestedRoot == 7

NestedSpec ==
  \E kp \in NestedKeyed :
    /\ Len(nodes) < NestedD
    /\ LET r == SpecFn(nodes, kp[1], kp[2])
       IN /\ nodes' = r.heap
          /\ last' = Ended("Spec", <<>>, r)

NestedAnd ==
  \E args \in {<<NestedB, NestedC>>, <<NestedBC, NestedD>>} :
    /\ Len(nodes) + 1 = IF args[1] = NestedB THEN NestedBC ELSE NestedBCD
    /\ LET r == and(nodes, args[1], args[2])
       IN /\ nodes' = r.heap
          /\ last' = Ended("and", args, r)

NestedOr ==
  /\ Len(nodes) + 1 = NestedRoot
  /\ LET r == or(nodes, NestedA, NestedBCD)
     IN /\ nodes' = r.heap
        /\ last' = Ended("or", <<NestedA, NestedBCD>>, r)

NestedIsSatisfiedBy ==
  \E this \in {NestedRoot, NestedBCD, NestedBC}, candidate \in Contexts :
    /\ Len(nodes) = NestedRoot
    /\ nodes' = nodes
    /\ last' = Evaluated("isSatisfiedBy", this, candidate,
                         isSatisfiedBy(nodes, this, candidate))

NestedNext ==
  \/ NestedSpec
  \/ NestedAnd
  \/ NestedOr
  \/ NestedIsSatisfiedBy

SpecNested == Init /\ [][NestedNext]_vars

(***************************************************************************)
(* The v1 variant (src/specification.ts): specifications over a candidate  *)
(* of any type T, with the six methods and, andNot, or, orNot, not and     *)
(* isSatisfiedBy.  The objects have the fields of the heap's records:      *)
(* leftCondition is `left`, rightCondition is `right`, wrapped is `spec`   *)
(* and #expression is `predicate`.  Expressions are typed                  *)
(* (candidate: T) => boolean: they return a boolean or throw.              *)
(***************************************************************************)
V1_Spec(expression) ==
  [kind |-> "V1Spec", key |-> NoKey, predicate |-> expression,
   left |-> Null, right |-> Null, spec |-> Null]

V1_AndSpecification(leftCondition, rightCondition) ==
  [kind |-> "V1And", key |-> NoKey, predicate |-> NoPredicate,
   left |-> leftCondition, right |-> rightCondition, spec |-> Null]

V1_AndNotSpecification(leftCondition, rightCondition) ==
  [kind |-> "V1AndNot", key |-> NoKey, predicate |-> NoPredicate,
   left |-> leftCondition, right |-> rightCondition, spec |-> Null]

V1_OrSpecification(leftCondition, rightCondition) ==
  [kind |-> "V1Or", key |-> NoKey, predicate |-> NoPredicate,
   left |-> leftCondition, right |-> rightCondition, spec |-> Null]

V1_OrNotSpecification(leftCondition, rightCondition) ==
  [kind |-> "V1OrNot", key |-> NoKey, predicate |-> NoPredicate,
   left |-> leftCondition, right |-> rightCondition, spec |-> Null]

V1_NotSpecification(wrapped) ==
  [kind |-> "V1Not", key |-> NoKey, predicate |-> NoPredicate,
   left |-> Null, right |-> Null, spec |-> wrapped]

RECURSIVE V1_isSatisfiedBy(_, _, _)

\* `x !== true` for the boolean x a call returned; an exception stays one.
V1_NotTrue(outcome) ==
  IF outcome.threw THEN outcome ELSE Returned(outcome.value # TRUE)

\* AndSpecification.isSatisfiedBy:
\*   left.isSatisfiedBy(c) && right.isSatisfiedBy(c)
\* The right operand is evaluated only if the left one returned true.
V1_And_isSatisfiedBy(h, this, candidate) ==
  LET leftResult == V1_isSatisfiedBy(h, h[this].left, candidate)
  IN IF leftResult.outcome.threw \/ ~leftResult.outcome.value
     THEN leftResult
     ELSE LET rightResult == V1_isSatisfiedBy(h, h[this].right, candidate)
          IN Result(rightResult.outcome,
                    leftResult.calls \o rightResult.calls)

\* Mutant: `!(left.isSatisfiedBy(c) && right.isSatisfiedBy(c))`, the negation
\* applied to the conjunction instead of the right operand.
V1_AndNot_isSatisfiedBy_NotOfAnd(h, this, candidate) ==
  Result(Negated(V1_And_isSatisfiedBy(h, this, candidate).outcome),
         V1_And_isSatisfiedBy(h, this, candidate).calls)

\* AndNotSpecification.isSatisfiedBy:
\*   left.isSatisfiedBy(c) && right.isSatisfiedBy(c) !== true
V1_AndNot_isSatisfiedBy(h, this, candidate) ==
  LET leftResult == V1_isSatisfiedBy(h, h[this].left, candidate)
  IN IF leftResult.outcome.threw \/ ~leftResult.outcome.value
     THEN leftResult
     ELSE LET rightResult == V1_isSatisfiedBy(h, h[this].right, candidate)
          IN Result(V1_NotTrue(rightResult.outcome),
                    leftResult.calls \o rightResult.calls)

\* OrSpecification.isSatisfiedBy:
\*   left.isSatisfiedBy(c) || right.isSatisfiedBy(c)
\* The right operand is evaluated only if the left one returned false.
V1_Or_isSatisfiedBy(h, this, candidate) ==
  LET leftResult == V1_isSatisfiedBy(h, h[this].left, candidate)
  IN IF leftResult.outcome.threw \/ leftResult.outcome.value
     THEN leftResult
     ELSE LET rightResult == V1_isSatisfiedBy(h, h[this].right, candidate)
          IN Result(rightResult.outcome,
                    leftResult.calls \o rightResult.calls)

\* OrNotSpecification.isSatisfiedBy:
\*   left.isSatisfiedBy(c) || right.isSatisfiedBy(c) !== true
V1_OrNot_isSatisfiedBy(h, this, candidate) ==
  LET leftResult == V1_isSatisfiedBy(h, h[this].left, candidate)
  IN IF leftResult.outcome.threw \/ leftResult.outcome.value
     THEN leftResult
     ELSE LET rightResult == V1_isSatisfiedBy(h, h[this].right, candidate)
          IN Result(V1_NotTrue(rightResult.outcome),
                    leftResult.calls \o rightResult.calls)

\* NotSpecification.isSatisfiedBy: return !this.wrapped.isSatisfiedBy(c)
V1_Not_isSatisfiedBy(h, this, candidate) ==
  LET inner == V1_isSatisfiedBy(h, h[this].spec, candidate)
  IN Result(Negated(inner.outcome), inner.calls)

\* Spec.isSatisfiedBy: return this.#expression(candidate)
V1_Spec_isSatisfiedBy(h, this, candidate) ==
  Result(ApplyContextPredicate(h[this].predicate, candidate), <<this>>)

V1_isSatisfiedBy(h, this, candidate) ==
  CASE h[this].kind = "V1Spec" -> V1_Spec_isSatisfiedBy(h, this, candidate)
    [] h[this].kind = "V1And" -> V1_And_isSatisfiedBy(h, this, candidate)
    [] h[this].kind = "V1AndNot" -> V1_AndNot_isSatisfiedBy(h, this, candidate)
    [] h[this].kind = "V1Or" -> V1_Or_isSatisfiedBy(h, this, candidate)
    [] h[this].kind = "V1OrNot" -> V1_OrNot_isSatisfiedBy(h, this, candidate)
    [] h[this].kind = "V1Not" -> V1_Not_isSatisfiedBy(h, this, candidate)

\* The methods of v1's CompositeSpecification.
V1_and(h, this, other) == New(h, V1_AndSpecification(this, other))
V1_andNot(h, this, other) == New(h, V1_AndNotSpecification(this, other))
V1_or(h, this, other) == New(h, V1_OrSpecification(this, other))
V1_orNot(h, this, other) == New(h, V1_OrNotSpecification(this, other))
V1_not(h, this) == New(h, V1_NotSpecification(this))

\* The expressions of the v1 session: one that returns on every candidate
\* and one that throws on some.
V1_Expressions == {"eitherOne", "bothOnes"}

V1_NewSpec ==
  \E expression \in V1_Expressions :
    /\ Len(nodes) < MaxNodes
    /\ LET r == New(nodes, V1_Spec(expression))
       IN /\ nodes' = r.heap
          /\ last' = Ended("Spec", <<>>, r)

V1_CallAnd ==
  \E this \in Refs, other \in Refs :
    /\ Len(nodes) < MaxNodes
    /\ LET r == V1_and(nodes, this, other)
       IN /\ nodes' = r.heap
          /\ last' = Ended("and", <<this, other>>, r)

V1_CallAndNot ==
  \E this \in Refs, other \in Refs :
    /\ Len(nodes) < MaxNodes
    /\ LET r == V1_andNot(nodes, this, other)
       IN /\ nodes' = r.heap
          /\ last' = Ended("andNot", <<this, other>>, r)

V1_CallOr ==
  \E this \in Refs, other \in Refs :
    /\ Len(nodes) < MaxNodes
    /\ LET r == V1_or(nodes, this, other)
       IN /\ nodes' = r.heap
          /\ last' = Ended("or", <<this, other>>, r)

V1_CallOrNot ==
  \E this \in Refs, other \in Refs :
    /\ Len(nodes) < MaxNodes
    /\ LET r == V1_orNot(nodes, this, other)
       IN /\ nodes' = r.heap
          /\ last' = Ended("orNot", <<this, other>>, r)

V1_CallNot ==
  \E this \in Refs :
    /\ Len(nodes) < MaxNodes
    /\ LET r == V1_not(nodes, this)
       IN /\ nodes' = r.heap
          /\ last' = Ended("not", <<this>>, r)

V1_CallIsSatisfiedBy ==
  \E this \in Refs, candidate \in Contexts :
    LET result == V1_isSatisfiedBy(nodes, this, candidate)
    IN /\ nodes' = nodes
       /\ last' = [op |-> "isSatisfiedBy", args |-> <<this>>, ref |-> Null,
                   candidate |-> candidate, after |-> candidate,
                   outcome |-> result.outcome, calls |-> result.calls]

V1_Next ==
  \/ V1_NewSpec
  \/ V1_CallAnd
  \/ V1_CallAndNot
  \/ V1_CallOr
  \/ V1_CallOrNot
  \/ V1_CallNot
  \/ V1_CallIsSatisfiedBy

SpecV1 == Init /\ [][V1_Next]_vars

(***************************************************************************)
(* The v2 variant (src/src/specification.ts, from line 158): atomic        *)
(* specifications with a key, and three composite classes that hold        *)
(* arrays of members.  The objects are records with the fields `key`,      *)
(* `predicate`, `specs` (the array) and `spec` (the object wrapped, or the *)
(* object a negated predicate closes over).                                *)
(***************************************************************************)
\* class Specification { readonly key; private predicate }
V2_Specification(key, predicate) ==
  [kind |-> "V2Specification", key |-> key, predicate |-> predicate,
   specs |-> <<>>, spec |-> Null]

\* new Specification(this.key, (value) => !this.predicate(value)): the
\* predicate is a closure over the specification negated.
V2_NegatedSpecification(key, this) ==
  [kind |-> "V2Specification", key |-> key, predicate |-> "negationOf",
   specs |-> <<>>, spec |-> this]

\* class CompositeSpecification { private specs }
V2_CompositeSpecification(specs) ==
  [kind |-> "V2Composite", key |-> NoKey, predicate |-> NoPredicate,
   specs |-> specs, spec |-> Null]

\* class OrSpecification { private specs }
V2_OrSpecification(specs) ==
  [kind |-> "V2Or", key |-> NoKey, predicate |-> NoPredicate,
   specs |-> specs, spec |-> Null]

\* class NotCompositeSpecification { private spec }
V2_NotCompositeSpecification(spec) ==
  [kind |-> "V2NotComposite", key |-> NoKey, predicate |-> NoPredicate,
   specs |-> <<>>, spec |-> spec]

\* class SpecBuilder { private predicate }
V2_SpecBuilder(predicate) ==
  [kind |-> "V2Builder", key |-> NoKey, predicate |-> predicate,
   specs |-> <<>>, spec |-> Null]

\* spec.key as CompositeSpecification.isSatisfiedBy reads it: the key of an
\* atomic specification; the composite classes have no such property, the
\* read gives undefined, and `undefined in candidate` tests the property
\* named "undefined".
V2_key(h, this) ==
  IF h[this].kind = "V2Specification" THEN h[this].key ELSE "undefined"

\* this.predicate(value) of an atomic specification.
RECURSIVE V2_predicate(_, _, _)
V2_predicate(h, this, value) ==
  IF h[this].predicate = "negationOf"
  THEN Negated(V2_predicate(h, h[this].spec, value))
  ELSE ApplyValuePredicate(h[this].predicate, value)

RECURSIVE V2_isSatisfiedBy(_, _, _)

\* Mutant: no test of the key, `return this.predicate(candidate[this.key])`.
V2_Specification_isSatisfiedBy_NoKeyTest(h, this, candidate) ==
  Result(V2_predicate(h, this, IF h[this].key \in DOMAIN candidate
                               THEN candidate[h[this].key]
                               ELSE Undefined),
         <<this>>)

\* Specification.isSatisfiedBy:
\*   return this.key in candidate && this.predicate(candidate[this.key])
V2_Specification_isSatisfiedBy(h, this, candidate) ==
  IF h[this].key \notin DOMAIN candidate
  THEN Result(Returned(FALSE), <<>>)
  ELSE Result(V2_predicate(h, this, candidate[h[this].key]), <<this>>)

\* specs.every(spec => spec.isSatisfiedBy(candidate)) from the i-th member
\* on: stops at the first member that returns false or throws.
RECURSIVE V2_every(_, _, _, _)
V2_every(h, specs, i, candidate) ==
  IF i > Len(specs)
  THEN Result(Returned(TRUE), <<>>)
  ELSE LET first == V2_isSatisfiedBy(h, specs[i], candidate)
       IN IF first.outcome.threw \/ ~first.outcome.value
          THEN first
          ELSE LET rest == V2_every(h, specs, i + 1, candidate)
               IN Result(rest.outcome, first.calls \o rest.calls)

\* specs.some(spec => spec.isSatisfiedBy(candidate)) from the i-th member
\* on: stops at the first member that returns true or throws.
RECURSIVE V2_some(_, _, _, _)
V2_some(h, specs, i, candidate) ==
  IF i > Len(specs)
  THEN Result(Returned(FALSE), <<>>)
  ELSE LET first == V2_isSatisfiedBy(h, specs[i], candidate)
       IN IF first.outcome.threw \/ first.outcome.value
          THEN first
          ELSE LET rest == V2_some(h, specs, i + 1, candidate)
               IN Result(rest.outcome, first.calls \o rest.calls)

\* The keys of keyMap in insertion order: the key of each member, at its
\* first occurrence.
RECURSIVE V2_keyOrder(_, _, _)
V2_keyOrder(h, specs, i) ==
  IF i = 0
  THEN <<>>
  ELSE LET before == V2_keyOrder(h, specs, i - 1)
       IN IF \E j \in 1..Len(before) : before[j] = V2_key(h, specs[i])
          THEN before
          ELSE Append(before, V2_key(h, specs[i]))

\* keyMap.get(key): the members with that key, in their order.
V2_keyMapGet(h, specs, key) ==
  SelectSeq(specs, LAMBDA s : V2_key(h, s) = key)

\* The loop `for (const [key, specs] of keyMap)` from the i-th key on:
\*   if (!(key in candidate)) return false
\*   if (!specs.every(spec => spec.isSatisfiedBy({[key]: candidate[key]})))
\*     return false
RECURSIVE V2_forKeys(_, _, _, _, _)
V2_forKeys(h, specs, keys, i, candidate) ==
  IF i > Len(keys)
  THEN Result(Returned(TRUE), <<>>)
  ELSE IF keys[i] \notin DOMAIN candidate
  THEN Result(Returned(FALSE), <<>>)
  ELSE LET allSatisfied ==
             V2_every(h, V2_keyMapGet(h, specs, keys[i]), 1,
                      [k \in {keys[i]} |-> candidate[k]])
       IN IF allSatisfied.outcome.threw \/ ~allSatisfied.outcome.value
          THEN allSatisfied
          ELSE LET rest == V2_forKeys(h, specs, keys, i + 1, candidate)
               IN Result(rest.outcome, allSatisfied.calls \o rest.calls)

\* CompositeSpecification.isSatisfiedBy
V2_Composite_isSatisfiedBy(h, this, candidate) ==
  V2_forKeys(h, h[this].specs,
             V2_keyOrder(h, h[this].specs, Len(h[this].specs)), 1, candidate)

\* OrSpecification.isSatisfiedBy:
\*   return this.specs.some(spec => spec.isSatisfiedBy(candidate))
V2_Or_isSatisfiedBy(h, this, candidate) ==
  V2_some(h, h[this].specs, 1, candidate)

\* NotCompositeSpecification.isSatisfiedBy:
\*   return !this.spec.isSatisfiedBy(candidate)
V2_NotComposite_isSatisfiedBy(h, this, candidate) ==
  LET inner == V2_isSatisfiedBy(h, h[this].spec, candidate)
  IN Result(Negated(inner.outcome), inner.calls)

V2_isSatisfiedBy(h, this, candidate) ==
  CASE h[this].kind = "V2Specification" ->
         V2_Specification_isSatisfiedBy(h, this, candidate)
    [] h[this].kind = "V2Composite" ->
         V2_Composite_isSatisfiedBy(h, this, candidate)
    [] h[this].kind = "V2Or" -> V2_Or_isSatisfiedBy(h, this, candidate)
    [] h[this].kind = "V2NotComposite" ->
         V2_NotComposite_isSatisfiedBy(h, this, candidate)

\* and(other) of the four classes: CompositeSpecification appends to a copy
\* of its array, the other classes start a new array with themselves.
V2_and(h, this, other) ==
  IF h[this].kind = "V2Composite"
  THEN New(h, V2_CompositeSpecification(Append(h[this].specs, other)))
  ELSE New(h, V2_CompositeSpecification(<<this, other>>))

\* or(other) of the four classes: OrSpecification appends to a copy of its
\* array, the other classes start a new array with themselves.
V2_or(h, this, other) ==
  IF h[this].kind = "V2Or"
  THEN New(h, V2_OrSpecification(Append(h[this].specs, other)))
  ELSE New(h, V2_OrSpecification(<<this, other>>))

\* not() of the four classes: the atomic one returns a new atomic
\* specification with the negated predicate, NotCompositeSpecification
\* returns the object it wraps, the other two wrap themselves.
V2_not(h, this) ==
  CASE h[this].kind = "V2Specification" ->
         New(h, V2_NegatedSpecification(h[this].key, this))
    [] h[this].kind = "V2NotComposite" -> Return(h, h[this].spec)
    [] OTHER -> New(h, V2_NotCompositeSpecification(this))

\* export function Spec(key, predicate) of v2
V2_Spec(h, key, predicate) == New(h, V2_Specification(key, predicate))

\* export function define(predicate) of v2
V2_define(h, predicate) == New(h, V2_SpecBuilder(predicate))

\* SpecBuilder.as(key) of v2: return new Specification(key, this.predicate)
V2_as(h, this, key) == New(h, V2_Specification(key, h[this].predicate))

\* The predicate arguments of the v2 session.
V2_Keyed == {<<"a", "isOne">>, <<"b", "mustBeOne">>}
V2_BuilderPredicates == {"isOne"}

V2_SpecRefs == {i \in Refs : nodes[i].kind # "V2Builder"}
V2_BuilderRefs == {i \in Refs : nodes[i].kind = "V2Builder"}

\* The record of a v2 evaluation.
V2_Evaluated(this, candidate, result) ==
  [op |-> "isSatisfiedBy", args |-> <<this>>, ref |-> Null,
   candidate |-> candidate, after |-> candidate,
   outcome |-> result.outcome, calls |-> result.calls]

V2_NewSpec ==
  \E kp \in V2_Keyed :
    /\ Len(nodes) < MaxNodes
    /\ LET r == V2_Spec(nodes, kp[1], kp[2])
       IN /\ nodes' = r.heap
          /\ last' = Ended("Spec", <<>>, r)

V2_CallDefine ==
  \E predicate \in V2_BuilderPredicates :
    /\ Len(nodes) < MaxNodes
    /\ LET r == V2_define(nodes, predicate)
       IN /\ nodes' = r.heap
          /\ last' = Ended("define", <<>>, r)

V2_CallAs ==
  \E this \in V2_BuilderRefs, key \in Keys :
    /\ Len(nodes) < MaxNodes
    /\ LET r == V2_as(nodes, this, key)
       IN /\ nodes' = r.heap
          /\ last' = Ended("as", <<this>>, r)

V2_CallAnd ==
  \E this \in V2_SpecRefs, other \in V2_SpecRefs :
    /\ Len(nodes) < MaxNodes
    /\ LET r == V2_and(nodes, this, other)
       IN /\ nodes' = r.heap
          /\ last' = Ended("and", <<this, other>>, r)

V2_CallOr ==
  \E this \in V2_SpecRefs, other \in V2_SpecRefs :
    /\ Len(nodes) < MaxNodes
    /\ LET r == V2_or(nodes, this, other)
       IN /\ nodes' = r.heap
          /\ last' = Ended("or", <<this, other>>, r)

V2_CallNot ==
  \E this \in V2_SpecRefs :
    /\ Len(nodes) < MaxNodes
    /\ LET r == V2_not(nodes, this)
       IN /\ nodes' = r.heap
          /\ last' = Ended("not", <<this>>, r)

V2_CallIsSatisfiedBy ==
  \E this \in V2_SpecRefs, candidate \in Contexts :
    /\ nodes' = nodes
    /\ last' = V2_Evaluated(this, candidate,
                            V2_isSatisfiedBy(nodes, this, candidate))

V2_Next ==
  \/ V2_NewSpec
  \/ V2_CallDefine
  \/ V2_CallAs
  \/ V2_CallAnd
  \/ V2_CallOr
  \/ V2_CallNot
  \/ V2_CallIsSatisfiedBy

SpecV2 == Init /\ [][V2_Next]_vars

(***************************************************************************)
(* A v2 session after the test 'complex business logic' of the v2 tests:   *)
(* eight atomic specifications admin, a1, a2, a3, p, q, a4, a5 are built,  *)
(* then admin.or(a1.and(a2).and(a3).and(p.or(q)).and(a4).and(a5)) call by  *)
(* call, and then the result is evaluated.                                 *)
(***************************************************************************)
ChainKeyed == Keys \X {"isOne"}
ChainAdmin == 1
ChainA1 == 2
ChainA2 == 3
ChainA3 == 4
ChainP == 5
ChainQ == 6
ChainA4 == 7
ChainA5 == 8
ChainPorQ == 11
ChainAll == 14
ChainRoot == 15

\* The calls after the leaves, in the order the expression makes them; each
\* returns the next object.
ChainCalls ==
  <<[method |-> "and", this |-> ChainA1, other |-> ChainA2],
    [method |-> "and", this |-> 9, other |-> ChainA3],
    [method |-> "or", this |-> ChainP, other |-> ChainQ],
    [method |-> "and", this |-> 10, other |-> ChainPorQ],
    [method |-> "and", this |-> 12, other |-> ChainA4],
    [method |-> "and", this |-> 13, other |-> ChainA5],
    [method |-> "or", this |-> ChainAdmin, other |-> ChainAll]>>

\* The call the session makes next, once the leaves exist.
ChainNextCall == ChainCalls[Len(nodes) - ChainA5 + 1]

ChainSpec ==
  \E kp \in ChainKeyed :
    /\ Len(nodes) < ChainA5
    /\ LET r == V2_Spec(nodes, kp[1], kp[2])
       IN /\ nodes' = r.heap
          /\ last' = Ended("Spec", <<>>, r)

ChainAnd ==
  /\ Len(nodes) >= ChainA5
  /\ Len(nodes) < ChainRoot
  /\ ChainNextCall.method = "and"
  /\ LET r == V2_and(nodes, ChainNextCall.this, ChainNextCall.other)
     IN /\ nodes' = r.heap
        /\ last' = Ended("and", <<ChainNextCall.this, ChainNextCall.other>>, r)

ChainOr ==
  /\ Len(nodes) >= ChainA5
  /\ Len(nodes) < ChainRoot
  /\ ChainNextCall.method = "or"
  /\ LET r == V2_or(nodes, ChainNextCall.this, ChainNextCall.other)
     IN /\ nodes' = r.heap
        /\ last' = Ended("or", <<ChainNextCall.this, ChainNextCall.other>>, r)

ChainIsSatisfiedBy ==
  \E this \in {ChainRoot, ChainAll, ChainPorQ}, candidate \in Contexts :
    /\ Len(nodes) = ChainRoot
    /\ nodes' = nodes
    /\ last' = V2_Evaluated(this, candidate,
                            V2_isSatisfiedBy(nodes, this, candidate))

ChainNext ==
  \/ ChainSpec
  \/ ChainAnd
  \/ ChainOr
  \/ ChainIsSatisfiedBy

SpecV2Chain == Init /\ [][ChainNext]_vars

(***************************************************************************)
(* A session of atomic specifications alone, evaluated on contexts whose   *)
(* properties may hold undefined.                                          *)
(***************************************************************************)
AtomicKeyed == Keys \X {"isOne", "alwaysTrue", "mustBeOne", "isUndefined"}

AtomicSpec ==
  \E kp \in AtomicKeyed :
    /\ Len(nodes) < MaxObjects
    /\ LET r == SpecFn(nodes, kp[1], kp[2])
       IN /\ nodes' = r.heap
          /\ last' = Ended("Spec", <<>>, r)

AtomicIsSatisfiedBy ==
  \E this \in Refs, candidate \in NullableContexts :
    /\ nodes' = nodes
    /\ last' = Evaluated("isSatisfiedBy", this, candidate,
                         isSatisfiedBy(nodes, this, candidate))

AtomicNext ==
  \/ AtomicSpec
  \/ AtomicIsSatisfiedBy

SpecAtomic == Init /\ [][AtomicNext]_vars

(***************************************************************************)
(* A session that filters lists of products, as example/product.spec.ts    *)
(* does: two leaves A and B are built, then A.not(), then A.not().or(B),   *)
(* and then one list is filtered with the specification as the callback.   *)
(***************************************************************************)
\* Mutant: the elements kept are collected in front of the result
\* (unshift instead of push).
RECURSIVE filter_Unshift(_, _, _, _)
filter_Unshift(h, list, this, method) ==
  IF list = <<>>
  THEN [threw |-> FALSE, kept |-> <<>>]
  ELSE LET result == IF method = "is" THEN is(h, this, Head(list))
                                      ELSE isSatisfiedBy(h, this, Head(list))
           rest == filter_Unshift(h, Tail(list), this, method)
       IN IF result.outcome.threw \/ rest.threw
          THEN [threw |-> TRUE, kept |-> <<>>]
          ELSE [threw |-> FALSE,
                kept |-> IF result.outcome.value
                         THEN rest.kept \o <<Head(list)>>
                         ELSE rest.kept]

\* list.filter(x => spec.is(x)) / list.filter(x => spec.isSatisfiedBy(x)):
\* the callback is called on each element in order; the elements for which
\* it returned true are kept, in order; an exception of the callback ends
\* the filter.
RECURSIVE filter(_, _, _, _)
filter(h, list, this, method) ==
  IF list = <<>>
  THEN [threw |-> FALSE, kept |-> <<>>]
  ELSE LET result == IF method = "is" THEN is(h, this, Head(list))
                                      ELSE isSatisfiedBy(h, this, Head(list))
           rest == filter(h, Tail(list), this, method)
       IN IF result.outcome.threw \/ rest.threw
          THEN [threw |-> TRUE, kept |-> <<>>]
          ELSE [threw |-> FALSE,
                kept |-> IF result.outcome.value
                         THEN <<Head(list)>> \o rest.kept
                         ELSE rest.kept]

\* The leaves of the session: the composite-predicate specifications of the
\* test, and the same rules as atomic specifications on one property.
FilterLeaves ==
  {PredicateSpecification("nameContainsA"), PredicateSpecification("highPrice"),
   SingleKeySpecification("name", "includesA"),
   SingleKeySpecification("price", "atLeast1000")}

FilterA == 1
FilterB == 2
FilterNotA == 3
FilterRoot == 4

ProductLists == UNION {[1..n -> Products] : n \in 0..MaxList}

\* The record of a filter call.
Filtered(this, method, list, r) ==
  [op |-> "filter", args |-> <<this>>, ref |-> Null,
   candidate |-> EmptyContext, after |-> EmptyContext,
   outcome |-> IF r.threw THEN Thrown ELSE Returned(TRUE), calls |-> <<>>,
   method |-> method, list |-> list, kept |-> r.kept]

FilterLeaf ==
  \E leaf \in FilterLeaves :
    /\ Len(nodes) < FilterB
    /\ LET r == IF leaf.kind = "SingleKey"
                THEN SpecFn(nodes, leaf.key, leaf.predicate)
                ELSE CompositeSpec(nodes, leaf.predicate)
       IN /\ nodes' = r.heap
          /\ last' = Ended(leaf.kind, <<>>, r)

FilterNot ==
  /\ Len(nodes) + 1 = FilterNotA
  /\ LET r == not(nodes, FilterA)
     IN /\ nodes' = r.heap
        /\ last' = Ended("not", <<FilterA>>, r)

FilterOr ==
  /\ Len(nodes) + 1 = FilterRoot
  /\ LET r == or(nodes, FilterNotA, FilterB)
     IN /\ nodes' = r.heap
        /\ last' = Ended("or", <<FilterNotA, FilterB>>, r)

FilterBy ==
  \E list \in ProductLists, method \in {"isSatisfiedBy", "is"} :
    /\ Len(nodes) = FilterRoot
    /\ last.op = "or"
    /\ nodes' = nodes
    /\ last' = Filtered(FilterRoot, method, list,
                        filter(nodes, list, FilterRoot, method))

FilterNext ==
  \/ FilterLeaf
  \/ FilterNot
  \/ FilterOr
  \/ FilterBy

SpecFilter == Init /\ [][FilterNext]_vars

(***************************************************************************)
(* Properties.  In a state reached by an evaluation, This is the           *)
(* specification evaluated and Candidate the context it was given.         *)
(***************************************************************************)
LastEvaluated == last.op = "isSatisfiedBy"
LastEvaluatedEither == last.op \in {"isSatisfiedBy", "is"}
This == last.args[1]
Candidate == last.candidate

\* The outcome alone of spec.isSatisfiedBy(candidate) on heap h.
Outcome(h, spec, candidate) == isSatisfiedBy(h, spec, candidate).outcome

\* The leaf predicate invoked as the i-th of the last evaluation threw.
InvokedThrew(i) == Outcome(nodes, last.calls[i], Candidate).threw

\* C1: v3 AND short-circuits: whenever L.and(R) is evaluated on a context on
\* which L returns false, the evaluation returns false and invokes no
\* predicate of R (its invocations are exactly those of evaluating L).
C1_AndShortCircuits ==
  (LastEvaluated /\ nodes[This].kind = "And") =>
    LET leftResult == isSatisfiedBy(nodes, nodes[This].left, Candidate)
    IN leftResult.outcome = Returned(FALSE) =>
         /\ last.outcome = Returned(FALSE)
         /\ last.calls = leftResult.calls

\* C2: an exception thrown by a leaf predicate that an evaluation invoked is
\* never caught: the top-level isSatisfiedBy call ends with the exception.
C2_ExceptionsPropagate ==
  LastEvaluated =>
    ((\E i \in DOMAIN last.calls : InvokedThrew(i)) => last.outcome.threw)

\* C3: Spec(K, p).isSatisfiedBy(ctx) returns true iff K is in ctx and
\* p(ctx[K]) is true; when K is absent it returns false, does not throw and
\* does not invoke p; when K is present p is invoked once, with ctx[K], and
\* its outcome is the outcome.
C3_AtomicSpecification ==
  (LastEvaluated /\ nodes[This].kind = "SingleKey") =>
    LET K == nodes[This].key
        p == nodes[This].predicate
    IN /\ last.outcome = Returned(TRUE) <=>
            (K \in DOMAIN Candidate
             /\ ApplyValuePredicate(p, Candidate[K]) = Returned(TRUE))
       /\ K \notin DOMAIN Candidate =>
            (last.outcome = Returned(FALSE) /\ last.calls = <<>>)
       /\ K \in DOMAIN Candidate =>
            (/\ last.outcome = ApplyValuePredicate(p, Candidate[K])
             /\ last.calls = <<This>>)

\* C3 witness: an atomic specification was evaluated on a context without
\* its key and returned false.
C3_Witness ==
  /\ LastEvaluated
  /\ nodes[This].kind = "SingleKey"
  /\ nodes[This].key \notin DOMAIN Candidate
  /\ Candidate # EmptyContext
  /\ last.outcome = Returned(FALSE)

\* C4: v3 OR short-circuits: whenever L.or(R) is evaluated on a context on
\* which L returns true, the evaluation returns true and invokes no
\* predicate of R; when L returns false the outcome is that of
\* R.isSatisfiedBy(ctx).
C4_OrShortCircuits ==
  (LastEvaluated /\ nodes[This].kind = "Or") =>
    LET leftResult == isSatisfiedBy(nodes, nodes[This].left, Candidate)
        rightResult == isSatisfiedBy(nodes, nodes[This].right, Candidate)
    IN /\ leftResult.outcome = Returned(TRUE) =>
            (last.outcome = Returned(TRUE) /\ last.calls = leftResult.calls)
       /\ leftResult.outcome = Returned(FALSE) =>
            last.outcome = rightResult.outcome

\* S1.and(S2).not() built on heap h.
DeMorganLeft(h, s1, s2) ==
  LET both == and(h, s1, s2)
  IN not(both.heap, both.ref)

\* S1.not().or(S2.not()) built on heap h.
DeMorganRight(h, s1, s2) ==
  LET n1 == not(h, s1)
      n2 == not(n1.heap, s2)
  IN or(n2.heap, n1.ref, n2.ref)

\* C5: De Morgan: for all specifications S1, S2 and every context,
\* S1.and(S2).not() and S1.not().or(S2.not()) have the same outcome: so for
\* the specification just evaluated, paired either way with any other.
C5_DeMorgan ==
  LastEvaluated =>
    \A other \in Refs :
      \A pair \in {<<This, other>>, <<other, This>>} :
        LET lhs == DeMorganLeft(nodes, pair[1], pair[2])
            rhs == DeMorganRight(nodes, pair[1], pair[2])
        IN Outcome(lhs.heap, lhs.ref, Candidate)
             = Outcome(rhs.heap, rhs.ref, Candidate)

\* Every way to write a specification whose predicate always returns `value`:
\* a composite-predicate one, or an atomic one on any key.
ConstantLeaves(value) ==
  {PredicateSpecification(IF value THEN "ctxTrue" ELSE "ctxFalse")}
    \cup {SingleKeySpecification(k, IF value THEN "alwaysTrue" ELSE "alwaysFalse")
            : k \in Keys}

\* S.or(leaf) for a newly created leaf, built on heap h.
OrWithLeaf(h, s, leaf) ==
  LET l == New(h, leaf)
  IN or(l.heap, s, l.ref)

\* S.and(leaf) for a newly created leaf, built on heap h.
AndWithLeaf(h, s, leaf) ==
  LET l == New(h, leaf)
  IN and(l.heap, s, l.ref)

\* C6: identity of OR: for every specification S and every context,
\* S.or(AlwaysFalse) has the same outcome as S: so for the specification
\* just evaluated and the context it was given.
C6_OrIdentity ==
  LastEvaluated =>
    \A leaf \in ConstantLeaves(FALSE) :
      LET r == OrWithLeaf(nodes, This, leaf)
      IN Outcome(r.heap, r.ref, Candidate) = last.outcome

\* C7 as stated: identity of AND: for every specification S and every
\* context, S.and(AlwaysTrue) has the same outcome as S, for every
\* specification AlwaysTrue whose predicate always returns true.
C7_AndIdentityAnyLeaf ==
  LastEvaluated =>
    \A leaf \in ConstantLeaves(TRUE) :
      LET r == AndWithLeaf(nodes, This, leaf)
      IN Outcome(r.heap, r.ref, Candidate) = last.outcome

\* AlwaysTrue is satisfied by the context: it is a composite-predicate
\* specification, or an atomic one whose key the context contains.
SatisfiedConstant(leaf, candidate) ==
  leaf.kind = "SingleKey" => leaf.key \in DOMAIN candidate

\* C7 (amended): identity of AND: whenever S has been evaluated on a context,
\* S.and(AlwaysTrue) has the same outcome on it, for every AlwaysTrue that
\* is a composite-predicate specification whose predicate always returns
\* true or an atomic one, with such a predicate, on a key of the context.
C7_AndIdentity ==
  LastEvaluated =>
    \A leaf \in ConstantLeaves(TRUE) :
      SatisfiedConstant(leaf, Candidate) =>
        LET r == AndWithLeaf(nodes, This, leaf)
        IN Outcome(r.heap, r.ref, Candidate) = last.outcome

\* C7 witness: a combinator S was evaluated and returned false on a context
\* that holds a key, where S.and(AlwaysTrue) returns false as well.
C7_Witness ==
  /\ LastEvaluated
  /\ nodes[This].kind \in {"And", "Or", "Not"}
  /\ last.outcome = Returned(FALSE)
  /\ last.calls # <<>>
  /\ \E leaf \in ConstantLeaves(TRUE) :
       /\ leaf.kind = "SingleKey"
       /\ leaf.key \in DOMAIN Candidate
       /\ LET r == AndWithLeaf(nodes, This, leaf)
          IN Outcome(r.heap, r.ref, Candidate) = Returned(FALSE)

\* S.not().not() built on heap h.
DoubleNegation(h, s) ==
  LET n1 == not(h, s)
  IN not(n1.heap, n1.ref)

\* C8: double negation: whenever S has been evaluated on a context,
\* S.not().not() has the same outcome on it; a specification that is
\* Not(Not(S)) has the outcome of S; and not().not() yields a new object
\* wrapping the object that wraps S, not S itself.
C8_DoubleNegation ==
  LastEvaluated =>
    /\ LET r == DoubleNegation(nodes, This)
       IN /\ Outcome(r.heap, r.ref, Candidate) = last.outcome
          /\ r.ref # This
          /\ r.ref = Len(nodes) + 2
          /\ r.heap[r.ref] = NotSpecification(Len(nodes) + 1)
          /\ r.heap[Len(nodes) + 1] = NotSpecification(This)
          /\ SubSeq(r.heap, 1, Len(nodes)) = nodes
    /\ (nodes[This].kind = "Not" /\ nodes[nodes[This].spec].kind = "Not") =>
         last.outcome = Outcome(nodes, nodes[nodes[This].spec].spec, Candidate)

\* C8 witness: a specification Not(Not(S)) was evaluated and returned true.
C8_Witness ==
  /\ LastEvaluated
  /\ nodes[This].kind = "Not"
  /\ nodes[nodes[This].spec].kind = "Not"
  /\ nodes[This].spec # This
  /\ last.outcome = Returned(TRUE)
  /\ last.calls # <<>>

\* C9: negation: a specification S.not() evaluates to the logical negation of
\* S.isSatisfiedBy on the same context (an exception of S stays one), and the
\* helper not(S) yields exactly what S.not() yields.
C9_Negation ==
  /\ (LastEvaluated /\ nodes[This].kind = "Not") =>
       last.outcome = Negated(Outcome(nodes, nodes[This].spec, Candidate))
  /\ LastEvaluated =>
       LET m == not(nodes, This)
           f == notFn(nodes, This)
       IN /\ Outcome(m.heap, m.ref, Candidate) = Negated(last.outcome)
          /\ f = m
  /\ last.op \in {"not", "notFn"} =>
       /\ last.ref = Len(nodes)
       /\ nodes[last.ref] = NotSpecification(last.args[1])
       /\ \A c \in Contexts :
            Outcome(nodes, last.ref, c) = Negated(Outcome(nodes, last.args[1], c))

\* C9 witness: the helper not(S) built a specification of a combinator S
\* that S.not() would have built too.
C9_Witness ==
  /\ last.op = "notFn"
  /\ nodes[last.args[1]].kind \in {"And", "Or", "Not"}
  /\ \E c \in Contexts : Outcome(nodes, last.ref, c) = Returned(TRUE)
  /\ \E c \in Contexts : Outcome(nodes, last.ref, c) = Returned(FALSE)

\* S1.and(S2)...and(Sn), written out: (S1.and(S2)...and(Sn-1)).and(Sn).
RECURSIVE AndChain(_, _)
AndChain(h, specs) ==
  IF Len(specs) = 1
  THEN Return(h, specs[1])
  ELSE LET front == AndChain(h, SubSeq(specs, 1, Len(specs) - 1))
       IN and(front.heap, front.ref, specs[Len(specs)])

\* S1.or(S2)...or(Sn), written out: (S1.or(S2)...or(Sn-1)).or(Sn).
RECURSIVE OrChain(_, _)
OrChain(h, specs) ==
  IF Len(specs) = 1
  THEN Return(h, specs[1])
  ELSE LET front == OrChain(h, SubSeq(specs, 1, Len(specs) - 1))
       IN or(front.heap, front.ref, specs[Len(specs)])

\* The heap as it was before the last call, which allocated `allocated` objects.
HeapBefore(allocated) == SubSeq(nodes, 1, Len(nodes) - allocated)

\* C10: allOf / anyOf are left folds: the specification allOf(S1,...,Sn)
\* returned evaluates, on every context, as S1.and(S2)...and(Sn) does, and
\* anyOf(S1,...,Sn) as S1.or(S2)...or(Sn); with n = 1 it is S1 itself.
C10_LeftFolds ==
  /\ (last.op = "allOf" /\ Len(last.args) > 0) =>
       LET chain == AndChain(HeapBefore(Len(last.args) - 1), last.args)
       IN /\ \A c \in Contexts :
               isSatisfiedBy(nodes, last.ref, c)
                 = isSatisfiedBy(chain.heap, chain.ref, c)
          /\ Len(last.args) = 1 => last.ref = last.args[1]
  /\ (last.op = "anyOf" /\ Len(last.args) > 0) =>
       LET chain == OrChain(HeapBefore(Len(last.args) - 1), last.args)
       IN /\ \A c \in Contexts :
               isSatisfiedBy(nodes, last.ref, c)
                 = isSatisfiedBy(chain.heap, chain.ref, c)
          /\ Len(last.args) = 1 => last.ref = last.args[1]

\* C10 witness: allOf was called with three specifications and returned a
\* specification that some context satisfies.
C10_Witness ==
  /\ last.op = "allOf"
  /\ Len(last.args) = 3
  /\ \E c \in Contexts : Outcome(nodes, last.ref, c) = Returned(TRUE)

\* C11: allOf() and anyOf() called with no argument fail at the call itself:
\* the call ends with an exception and returns no specification object (and a
\* call with arguments returns one).
C11_EmptyFoldThrows ==
  last.op \in {"allOf", "anyOf"} =>
    IF Len(last.args) = 0
    THEN last.outcome.threw /\ last.ref = Null
    ELSE ~last.outcome.threw /\ last.ref \in Refs

\* C11 witness: allOf() was called with no argument in a session that holds
\* specifications, and threw.
C11_Witness ==
  /\ last.op = "allOf"
  /\ Len(last.args) = 0
  /\ last.outcome.threw
  /\ Len(nodes) > 0

(***************************************************************************)
(* Non-callable predicate arguments.                                       *)
(***************************************************************************)
\* The objects whose predicate field holds a value that is not callable.
HoldsNotCallable(i) ==
  /\ nodes[i].kind \in {"SingleKey", "Predicate", "Builder"}
  /\ nodes[i].predicate = NotCallable

\* C12 as stated: a non-callable value passed as the predicate to Spec,
\* CompositeSpec or define is rejected by the call itself, so no object ever
\* holds one.
C12_NonCallableRejected ==
  /\ \A i \in Refs : ~HoldsNotCallable(i)
  /\ last.op \in {"Spec", "CompositeSpec", "define", "as"} =>
       (last.outcome.threw \/ ~HoldsNotCallable(last.ref))

\* C12 amended: the v3 leaf constructors validate nothing.  Spec,
\* CompositeSpec, define and as return an object whatever the predicate
\* argument is, and a non-callable one surfaces as an exception of the first
\* evaluation that calls it: every evaluation of a composite-predicate leaf,
\* and the evaluations of an atomic leaf whose key the context contains (on
\* a context without the key the atomic leaf returns false without error).
C12_NonCallableSurfacesAtCall ==
  /\ last.op \in {"Spec", "CompositeSpec", "define", "as"} =>
       (~last.outcome.threw /\ last.ref = Len(nodes))
  /\ (LastEvaluatedEither /\ HoldsNotCallable(This)) =>
       IF nodes[This].kind = "SingleKey"
          /\ nodes[This].key \notin DOMAIN Candidate
       THEN last.outcome = Returned(FALSE)
       ELSE last.outcome.threw

C12_Witness ==
  /\ last.op = "isSatisfiedBy"
  /\ HoldsNotCallable(This)
  /\ nodes[This].kind = "SingleKey"
  /\ nodes[This].key \in DOMAIN Candidate
  /\ last.outcome.threw

(***************************************************************************)
(* Nesting.                                                                *)
(***************************************************************************)
\* The truth value of the Boolean formula that the tree at `ref` denotes on
\* context c: an atomic leaf is "key present and predicate(value)", a
\* composite-predicate leaf is predicate(c), and And, Or, Not are the
\* connectives.  Meaningful for total predicates only.
RECURSIVE Formula(_, _, _)
Formula(h, ref, c) ==
  CASE h[ref].kind = "SingleKey" ->
         /\ h[ref].key \in DOMAIN c
         /\ ApplyValuePredicate(h[ref].predicate, c[h[ref].key]).value
    [] h[ref].kind = "Predicate" ->
         ApplyContextPredicate(h[ref].predicate, c).value
    [] h[ref].kind = "And" ->
         Formula(h, h[ref].left, c) /\ Formula(h, h[ref].right, c)
    [] h[ref].kind = "Or" ->
         Formula(h, h[ref].left, c) \/ Formula(h, h[ref].right, c)
    [] h[ref].kind = "Not" -> ~Formula(h, h[ref].spec, c)

\* C13: and, or and not accept any specification as operand and return a
\* new node over exactly the operands given; the evaluation of any tree
\* built this way from total predicates returns the value of the Boolean
\* formula the tree denotes, and never throws.
C13_UniformNesting ==
  /\ last.op \in {"and", "or"} =>
       /\ last.ref = Len(nodes)
       /\ nodes[last.ref].left = last.args[1]
       /\ nodes[last.ref].right = last.args[2]
  /\ last.op = "not" =>
       /\ last.ref = Len(nodes)
       /\ nodes[last.ref].spec = last.args[1]
  /\ LastEvaluated =>
       last.outcome = Returned(Formula(nodes, This, Candidate))

C13_Witness ==
  /\ LastEvaluated
  /\ nodes[This].kind = "And"
  /\ nodes[nodes[This].left].kind = "Not"
  /\ nodes[nodes[This].right].kind = "Not"
  /\ nodes[nodes[nodes[This].left].spec].kind = "SingleKey"
  /\ nodes[nodes[nodes[This].left].spec].key \notin DOMAIN Candidate
  /\ Candidate # EmptyContext
  /\ last.outcome = Returned(TRUE)

(***************************************************************************)
(* OR over heterogeneous contexts.                                         *)
(***************************************************************************)
\* The leaf is satisfied by the candidate of the last evaluation, and the
\* candidate has no property of the leaf's key.
Satisfies(leaf) == Outcome(nodes, leaf, Candidate) = Returned(TRUE)
Lacks(leaf) == nodes[leaf].key \notin DOMAIN Candidate

PredicateTrue(leaf) ==
  ApplyValuePredicate(nodes[leaf].predicate, Candidate[nodes[leaf].key])
    = Returned(TRUE)

\* C15: for two atomic specifications on the same key K, the evaluation of
\* Spec(K, p).and(Spec(K, q)) returns true exactly when the context has K
\* and both p and q return true of its value.
C15_SameKeyAnd ==
  (LastEvaluated /\ This = NestedBC
   /\ nodes[NestedB].key = nodes[NestedC].key) =>
    (last.outcome = Returned(TRUE)
       <=> /\ nodes[NestedB].key \in DOMAIN Candidate
           /\ PredicateTrue(NestedB)
           /\ PredicateTrue(NestedC))

C15_Witness ==
  /\ LastEvaluated
  /\ This = NestedBC
  /\ nodes[NestedB].key = nodes[NestedC].key
  /\ nodes[NestedB].predicate = "isOne"
  /\ nodes[NestedC].predicate = "alwaysTrue"
  /\ nodes[NestedB].key \in DOMAIN Candidate
  /\ last.outcome = Returned(FALSE)

(***************************************************************************)
(* Immutability.                                                           *)
(***************************************************************************)
\* C16: no call changes an object that exists: every call leaves each
\* object of the heap with the same key, predicate and child references
\* (composition only adds objects), and an evaluation leaves the candidate
\* it was given as it was.
C16_NoMutation ==
  [][/\ Len(nodes') >= Len(nodes)
     /\ \A i \in 1..Len(nodes) : nodes'[i] = nodes[i]
     /\ last'.op \in {"isSatisfiedBy", "is"} => last'.after = last'.candidate
    ]_vars

C16_Witness ==
  /\ LastEvaluatedEither
  /\ Len(nodes) = MaxObjects
  /\ nodes[This].kind = "And"
  /\ nodes[This].left = nodes[This].right
  /\ nodes[nodes[This].left].kind = "SingleKey"
  /\ nodes[This].left \in DOMAIN last.calls
  /\ Candidate # EmptyContext
  /\ last.after = Candidate

(***************************************************************************)
(* Determinism.                                                            *)
(***************************************************************************)
\* C17: what an evaluation yields depends on the specification and the
\* context only.  An evaluation changes no object, so it leaves nothing
\* behind that a later evaluation could read; and whatever is built, from
\* a specification or beside it, every specification that existed evaluates
\* on every context after the call as it did before it: same outcome, same
\* predicates invoked in the same order.
C17_Deterministic ==
  [][IF last'.op \in {"isSatisfiedBy", "is"}
     THEN nodes' = nodes
     ELSE \A this \in SpecRefs, candidate \in Contexts :
            isSatisfiedBy(nodes', this, candidate)
              = isSatisfiedBy(nodes, this, candidate)
    ]_vars

C17_Witness ==
  /\ LastEvaluatedEither
  /\ Len(nodes) = MaxObjects
  /\ This = 1
  /\ nodes[MaxObjects].kind = "Or"
  /\ nodes[MaxObjects].left = This
  /\ nodes[This].predicate = "mustBeOne"
  /\ last.outcome.threw

(***************************************************************************)
(* The alias `is`.                                                         *)
(***************************************************************************)
\* C18: spec.is(ctx) ends as spec.isSatisfiedBy(ctx) does, for every class
\* of specification and every context: it returns the same boolean or
\* throws where isSatisfiedBy throws, after invoking the same predicates.
C18_IsAlias ==
  last.op = "is" =>
    /\ last.outcome = Outcome(nodes, This, Candidate)
    /\ last.calls = isSatisfiedBy(nodes, This, Candidate).calls

C18_Witness ==
  /\ last.op = "is"
  /\ nodes[This].kind = "Not"
  /\ nodes[nodes[This].spec].kind = "Predicate"
  /\ last.outcome.threw

(***************************************************************************)
(* Deferred key binding.                                                   *)
(***************************************************************************)
\* The context c without the properties other than `key`.
OnlyKey(c, key) == [k \in DOMAIN c \cap {key} |-> c[k]]

\* C19: define(p).as(k) evaluates as Spec(k, p) does on every context.  After
\* a builder has been bound once, the builder still holds p and the
\* specification bound holds p too; binding the builder again, to any key k,
\* yields a specification that evaluates as Spec(k, p), whose outcome depends
\* on the property k of the context alone, and leaves the builder and the
\* specification bound earlier as they were.
C19_DeferredBinding ==
  last.op = "as" =>
    LET builder == last.args[1]
        predicate == nodes[builder].predicate
        first == last.ref
    IN /\ nodes[builder] = SpecBuilder(predicate)
       /\ nodes[first].kind = "SingleKey"
       /\ nodes[first].predicate = predicate
       /\ \A key \in Keys :
            LET bound == as(nodes, builder, key)
                direct == SpecFn(nodes, key, predicate)
            IN /\ ~bound.threw
               /\ bound.heap[builder] = nodes[builder]
               /\ bound.heap[first] = nodes[first]
               /\ \A c \in Contexts :
                    /\ isSatisfiedBy(bound.heap, bound.ref, c)
                         = isSatisfiedBy(direct.heap, direct.ref, c)
                    /\ isSatisfiedBy(bound.heap, first, c)
                         = isSatisfiedBy(nodes, first, c)
                    /\ Outcome(bound.heap, bound.ref, c)
                         = Outcome(bound.heap, bound.ref, OnlyKey(c, key))

C19_Witness ==
  /\ last.op = "as"
  /\ nodes[last.args[1]].predicate = "mustBeOne"
  /\ nodes[last.ref].key = "b"
  /\ Outcome(nodes, last.ref, [k \in {"a"} |-> 0]) = Returned(FALSE)
  /\ Outcome(nodes, last.ref, [k \in {"b"} |-> 0]).threw

(***************************************************************************)
(* v1: andNot and orNot.                                                   *)
(***************************************************************************)
\* L.and(R.not()) and L.or(R.not()), built on heap h.
V1_AndOfNot(h, l, r) == V1_and(V1_not(h, r).heap, l, V1_not(h, r).ref)
V1_OrOfNot(h, l, r) == V1_or(V1_not(h, r).heap, l, V1_not(h, r).ref)

\* C20: in v1, an evaluation of L.andNot(R) ends as the evaluation of
\* L.and(R.not()) on the same candidate does, and one of L.orNot(R) as that
\* of L.or(R.not()): same boolean or an exception in both, after the same
\* expressions were called in the same order.
C20_AndNotOrNot ==
  /\ (LastEvaluated /\ nodes[This].kind = "V1AndNot") =>
       LET composed == V1_AndOfNot(nodes, nodes[This].left, nodes[This].right)
           result == V1_isSatisfiedBy(composed.heap, composed.ref, Candidate)
       IN last.outcome = result.outcome /\ last.calls = result.calls
  /\ (LastEvaluated /\ nodes[This].kind = "V1OrNot") =>
       LET composed == V1_OrOfNot(nodes, nodes[This].left, nodes[This].right)
           result == V1_isSatisfiedBy(composed.heap, composed.ref, Candidate)
       IN last.outcome = result.outcome /\ last.calls = result.calls

C20_Witness ==
  /\ LastEvaluated
  /\ nodes[This].kind = "V1AndNot"
  /\ nodes[This].left # nodes[This].right
  /\ nodes[nodes[This].left].kind = "V1Spec"
  /\ nodes[nodes[This].right].kind = "V1Spec"
  /\ Len(last.calls) = 2
  /\ last.outcome = Returned(TRUE)

(***************************************************************************)
(* Filtering.                                                              *)
(***************************************************************************)
\* (not A(c)) or B(c), with A(c) and B(c) what the two leaves return.
NotAOrB(c) ==
  \/ Outcome(nodes, FilterA, c) = Returned(FALSE)
  \/ Outcome(nodes, FilterB, c) = Returned(TRUE)

\* C21: filtering a list by A.not().or(B), through isSatisfiedBy or through
\* is, returns the elements c of the list with (not A(c)) or B(c), in the
\* order of the list; of the four products of the test, with A "the name
\* contains A" and B "the price is at least 1000", it returns the second,
\* the third and the fourth.
C21_FilterKeeps ==
  last.op = "filter" =>
    /\ ~last.outcome.threw
    /\ last.kept = SelectSeq(last.list, NotAOrB)
    /\ (/\ last.list = ExampleProducts
        /\ nodes[FilterA].predicate \in {"nameContainsA", "includesA"}
        /\ nodes[FilterB].predicate \in {"highPrice", "atLeast1000"})
         => last.kept = SubSeq(ExampleProducts, 2, 4)

C21_Witness ==
  /\ last.op = "filter"
  /\ last.method = "is"
  /\ last.list = ExampleProducts
  /\ nodes[FilterA] = PredicateSpecification("nameContainsA")
  /\ nodes[FilterB] = PredicateSpecification("highPrice")
  /\ last.kept = SubSeq(ExampleProducts, 2, 4)

(***************************************************************************)
(* v2 and v3.                                                              *)
(***************************************************************************)
\* The expression that built the v2 object `ref` of heap h2, written against
\* v3 and built on the v3 heap h3: Spec(key, p) and define(p).as(key) are
\* Spec(key, p); x.not() is x.not(); the array of a composite is the chain
\* s1.and(s2)...and(sn), that of an Or the chain s1.or(s2)...or(sn).
RECURSIVE Migrated(_, _, _)
RECURSIVE MigratedChain(_, _, _, _, _)
Migrated(h3, h2, ref) ==
  CASE h2[ref].kind = "V2Specification" /\ h2[ref].predicate # "negationOf" ->
         SpecFn(h3, h2[ref].key, h2[ref].predicate)
    [] h2[ref].kind = "V2Specification" /\ h2[ref].predicate = "negationOf" ->
         not(Migrated(h3, h2, h2[ref].spec).heap,
             Migrated(h3, h2, h2[ref].spec).ref)
    [] h2[ref].kind = "V2Composite" ->
         MigratedChain(h3, h2, h2[ref].specs, Len(h2[ref].specs), "and")
    [] h2[ref].kind = "V2Or" ->
         MigratedChain(h3, h2, h2[ref].specs, Len(h2[ref].specs), "or")
    [] h2[ref].kind = "V2NotComposite" ->
         not(Migrated(h3, h2, h2[ref].spec).heap,
             Migrated(h3, h2, h2[ref].spec).ref)

MigratedChain(h3, h2, specs, n, method) ==
  IF n = 1
  THEN Migrated(h3, h2, specs[1])
  ELSE LET receiver == MigratedChain(h3, h2, specs, n - 1, method)
           argument == Migrated(receiver.heap, h2, specs[n])
       IN IF method = "and"
          THEN and(argument.heap, receiver.ref, argument.ref)
          ELSE or(argument.heap, receiver.ref, argument.ref)

\* The v2 objects that the typed v2 API can build: atomic specifications,
\* their negations, and the and/or chains whose arguments are atomic.
RECURSIVE V2_Typed(_, _)
V2_Typed(h, ref) ==
  CASE h[ref].kind = "V2Specification" ->
         h[ref].predicate = "negationOf" => V2_Typed(h, h[ref].spec)
    [] h[ref].kind \in {"V2Composite", "V2Or"} ->
         /\ V2_Typed(h, h[ref].specs[1])
         /\ \A i \in 2..Len(h[ref].specs) :
              /\ h[h[ref].specs[i]].kind = "V2Specification"
              /\ V2_Typed(h, h[ref].specs[i])
    [] OTHER -> FALSE

\* The outcome of the last evaluation's specification under v3.
UnderV3 ==
  Outcome(Migrated(<<>>, nodes, This).heap, Migrated(<<>>, nodes, This).ref,
          Candidate)

\* C22 as stated: v3 is backward compatible with v2: every expression of the
\* typed v2 API evaluates under v3 to what it evaluates to under v2, on
\* every context.
C22_BackwardCompatible ==
  (LastEvaluated /\ V2_Typed(nodes, This)) => last.outcome = UnderV3

(***************************************************************************)
(* v2: an OR inside an AND chain.                                          *)
(***************************************************************************)
\* The v2 specification is satisfied by the candidate of the last
\* evaluation.
V2_Satisfies(this) ==
  V2_isSatisfiedBy(nodes, this, Candidate).outcome = Returned(TRUE)

ChainAtoms == {ChainA1, ChainA2, ChainA3, ChainA4, ChainA5}

\* C23 as stated: admin.or(a1.and(a2).and(a3).and(p.or(q)).and(a4).and(a5))
\* is satisfied by a context that satisfies admin alone; is satisfied by a
\* context that does not satisfy admin and satisfies a1..a5 and p or q; and
\* is not satisfied by a context that satisfies neither admin nor p or q.
C23_OrInsideAndChain ==
  (LastEvaluated /\ This = ChainRoot) =>
    /\ (/\ V2_Satisfies(ChainAdmin)
        /\ \A s \in ChainAtoms \cup {ChainP, ChainQ} : ~V2_Satisfies(s))
         => last.outcome = Returned(TRUE)
    /\ (/\ ~V2_Satisfies(ChainAdmin)
        /\ \A s \in ChainAtoms : V2_Satisfies(s)
        /\ V2_Satisfies(ChainP) \/ V2_Satisfies(ChainQ))
         => last.outcome = Returned(TRUE)
    /\ (/\ ~V2_Satisfies(ChainAdmin)
        /\ ~V2_Satisfies(ChainP)
        /\ ~V2_Satisfies(ChainQ))
         => last.outcome = Returned(FALSE)

(***************************************************************************)
(* Evaluation order.                                                       *)
(***************************************************************************)
\* The predicates the evaluation of `spec` on the last candidate invokes, in
\* order.
CallsOf(spec) == isSatisfiedBy(nodes, spec, Candidate).calls

\* C24: an And or Or node evaluates its left operand first: the predicate
\* invocations of an evaluation of the node are those of the left operand,
\* followed by those of the right operand if the right operand is evaluated
\* at all.
C24_LeftBeforeRight ==
  (LastEvaluated /\ nodes[This].kind \in {"And", "Or"}) =>
    LET leftCalls == CallsOf(nodes[This].left)
        rightCalls == CallsOf(nodes[This].right)
    IN \/ last.calls = leftCalls
       \/ last.calls = leftCalls \o rightCalls

C24_Witness ==
  /\ LastEvaluated
  /\ nodes[This].kind = "Or"
  /\ nodes[nodes[This].left].kind = "SingleKey"
  /\ nodes[nodes[This].right].kind = "Predicate"
  /\ last.calls = <<nodes[This].left, nodes[This].right>>

(***************************************************************************)
(* Termination and cost.                                                   *)
(***************************************************************************)
\* The operands of the object i.
Children(h, i) ==
  CASE h[i].kind \in {"And", "Or"} -> {h[i].left, h[i].right}
    [] h[i].kind = "Not" -> {h[i].spec}
    [] OTHER -> {}

\* The leaf occurrences of the tree at `ref`, from left to right; a leaf
\* object that two operands share occurs once for each.
RECURSIVE Fringe(_, _)
Fringe(h, ref) ==
  CASE h[ref].kind \in {"And", "Or"} ->
         Fringe(h, h[ref].left) \o Fringe(h, h[ref].right)
    [] h[ref].kind = "Not" -> Fringe(h, h[ref].spec)
    [] OTHER -> <<ref>>

\* s can be obtained from t by leaving elements out.
RECURSIVE IsSubsequence(_, _)
IsSubsequence(s, t) ==
  IF s = <<>> THEN TRUE
  ELSE IF t = <<>> THEN FALSE
  ELSE IF Head(s) = Head(t) THEN IsSubsequence(Tail(s), Tail(t))
  ELSE IsSubsequence(s, Tail(t))

\* C25: every evaluation ends, and invokes the predicate of each leaf
\* occurrence of its tree at most once.  The recursion of isSatisfiedBy goes
\* from an object to its operands only, and every operand was allocated
\* before the object that holds it, so the recursion is well-founded; the
\* predicates invoked, in order, are leaf occurrences of the tree taken from
\* left to right, none taken twice.
C25_TerminatesOncePerLeaf ==
  LastEvaluated =>
    /\ \A i \in Refs : \A child \in Children(nodes, i) : child \in 1..(i - 1)
    /\ IsSubsequence(last.calls, Fringe(nodes, This))
    /\ Len(last.calls) <= Len(Fringe(nodes, This))

C25_Witness ==
  /\ LastEvaluated
  /\ nodes[This].kind = "And"
  /\ nodes[This].left = nodes[This].right
  /\ nodes[nodes[This].left].kind = "SingleKey"
  /\ last.calls = <<nodes[This].left, nodes[This].left>>

(***************************************************************************)
(* Shape of the object graph.                                              *)
(***************************************************************************)
\* C26: the objects form an acyclic graph.  A call of and, or or not adds
\* exactly one object, whose operands are objects that existed before the
\* call; a call of allOf or anyOf with n arguments adds n - 1; no call
\* changes the references of an object that exists; so after every call
\* each object refers to objects allocated before it only.
C26_Acyclic ==
  [][/\ last'.op \in {"and", "or", "not"} =>
          /\ Len(nodes') = Len(nodes) + 1
          /\ last'.ref = Len(nodes')
          /\ Children(nodes', last'.ref) # {}
          /\ Children(nodes', last'.ref) \subseteq Refs
     /\ (last'.op \in {"allOf", "anyOf"} /\ ~last'.outcome.threw) =>
          Len(nodes') = Len(nodes) + Len(last'.args) - 1
     /\ \A i \in Refs : Children(nodes', i) = Children(nodes, i)
     /\ \A i \in 1..Len(nodes') :
          \A child \in Children(nodes', i) : child \in 1..(i - 1)
    ]_vars

C26_Witness ==
  /\ last.op = "anyOf"
  /\ Len(last.args) = MaxObjects
  /\ last.ref = Len(nodes)
  /\ nodes[last.ref].kind = "Or"
  /\ Children(nodes, last.ref) = {1}

Exchanged ==
  LET swapped == IF nodes[This].kind = "And"
                 THEN and(nodes, nodes[This].right, nodes[This].left)
                 ELSE or(nodes, nodes[This].right, nodes[This].left)
  IN Outcome(swapped.heap, swapped.ref, Candidate)

AgreeOn(key, c, d) ==
  /\ key \in DOMAIN c <=> key \in DOMAIN d
  /\ key \in DOMAIN c => c[key] = d[key]

\* C29: an atomic specification Spec(K, p) tests whether the context has
\* the property K, whatever its value: with K present, also holding
\* undefined, p is invoked with the value and its outcome is the result;
\* with K absent the result is false and p is not invoked.  Contexts that
\* agree on K get the same result, whatever else they hold.
C29_ReadsOneKey ==
  (LastEvaluated /\ nodes[This].kind = "SingleKey") =>
    /\ IF nodes[This].key \in DOMAIN Candidate
       THEN /\ last.calls = <<This>>
            /\ last.outcome = ApplyValuePredicate(nodes[This].predicate,
                                                  Candidate[nodes[This].key])
       ELSE /\ last.calls = <<>>
            /\ last.outcome = Returned(FALSE)
    /\ \A other \in NullableContexts :
         AgreeOn(nodes[This].key, Candidate, other)
           => Outcome(nodes, This, other) = last.outcome

C29_Witness ==
  /\ LastEvaluated
  /\ nodes[This].kind = "SingleKey"
  /\ nodes[This].predicate = "isUndefined"
  /\ nodes[This].key \in DOMAIN Candidate
  /\ Candidate[nodes[This].key] = Undefined
  /\ DOMAIN Candidate = Keys
  /\ last.outcome = Returned(TRUE)

(***************************************************************************)
(* Negation of an atomic specification on an absent key.                   *)
(***************************************************************************)
\* The last evaluation is that of the v2 object Spec(K, p).not() on a
\* context without K.
NegatedAtomOnAbsentKey ==
  /\ LastEvaluated
  /\ nodes[This].kind = "V2Specification"
  /\ nodes[This].predicate = "negationOf"
  /\ nodes[nodes[This].spec].predicate # "negationOf"
  /\ nodes[This].key \notin DOMAIN Candidate

\* not(Spec(K, p)) of v3 for the atomic v2 specification `atom`.
NotOfAtom(atom) ==
  notFn(SpecFn(<<>>, nodes[atom].key, nodes[atom].predicate).heap,
        SpecFn(<<>>, nodes[atom].key, nodes[atom].predicate).ref)

=============================================================================
